---- MODULE Spec2Model ----
(***************************************************************************)
(* Relationship & chain analysis engine of RapidPay, as implemented in     *)
(* Test/Experiments/Paper/experiment_code.py: RelationshipAnalyzer,        *)
(* ChainAnalyzer and the networkx DiGraph operations they rely on.         *)
(*                                                                         *)
(* Strengths are kept in tenths (0.8 is 8).  The free-text description of  *)
(* a relationship is not modelled.  The file defines                       *)
(* analyze_data_dependencies, analyze_control_flow_dependencies and        *)
(* analyze_module_dependencies after its __main__ block, not in the class: *)
(* RelationshipAnalyzer has no such methods, and find_all_relationships,   *)
(* which calls them, raises on every input.                                *)
(***************************************************************************)
EXTENDS Integers, Sequences, FiniteSets, TLC

VARIABLES debt_items, relationships, ra_graph, graph, candidates, chains,
          enhanced, pc,
          chain_metrics, weights_arg, weights, sir_graph, sir,
          args, result

\* what calculate_chain_metrics returned, the argument and the weights of
\* the SirCalculator, the graph given to calculate_sir_scores, and the
\* sir_score and sir_components of each instance
scoring_vars == <<chain_metrics, weights_arg, weights, sir_graph, sir>>

\* the arguments and the result of a single function call
call_vars == <<args, result>>

vars == <<debt_items, relationships, ra_graph, graph, candidates, chains,
          enhanced, pc, scoring_vars, call_vars>>

(***************************************************************************)
(* Bounds of the model.                                                    *)
(***************************************************************************)
MaxDebts == 3
MaxRels == 2
MaxLine == 22
MaxChord == 2
MaxWords == 2

(***************************************************************************)
(* Instance ids.  scan_file derives an id from the file path and the line, *)
(* with every '/' of the path replaced by '_': a path may contain a comma, *)
(* and two files (a/b_c.py and a_b/c.py) may give the same id.             *)
(***************************************************************************)
Ids == {"a", "a,b", "b,a"}

\* Python's string order on Ids, smallest first.
IdOrder == <<"a", "a,b", "b,a">>

\* The file of each instance, as its path components.
FileOf ==
  [i \in Ids |-> IF i = "a" THEN <<"core", "a">>
                 ELSE IF i = "a,b" THEN <<"core", "a,b">>
                 ELSE <<"util", "b,a">>]

Range(s) == {s[i] : i \in 1..Len(s)}

\* the concatenation of a sequence of sequences
RECURSIVE Flatten(_)
Flatten(ss) ==
  IF Len(ss) = 0 THEN <<>>
  ELSE IF Len(ss) = 1 THEN ss[1]
  ELSE LET half == Len(ss) \div 2
       IN Flatten(SubSeq(ss, 1, half)) \o Flatten(SubSeq(ss, half + 1, Len(ss)))

(***************************************************************************)
(* Domain classes.                                                         *)
(***************************************************************************)
TechnicalDebt(id, file) == [id |-> id, file |-> file]

relationship_strengths == [call |-> 8, data |-> 7, control |-> 6, module |-> 9]

SatdRelationship(source_id, target_id, types, strength) ==
  [source_id |-> source_id, target_id |-> target_id, types |-> types,
   strength |-> strength, chain_ids |-> <<>>, in_chain |-> FALSE]

Chain(id, nodes) == [id |-> id, nodes |-> nodes, length |-> Len(nodes)]

\* str(n) for a natural number n
Digit == <<"0", "1", "2", "3", "4", "5", "6", "7", "8", "9">>

RECURSIVE IntStr(_)
IntStr(n) == IF n < 10 THEN Digit[n + 1]
             ELSE IntStr(n \div 10) \o Digit[(n % 10) + 1]

\* sep.join(parts)
RECURSIVE Join(_, _)
Join(parts, sep) ==
  IF parts = <<>> THEN ""
  ELSE IF Len(parts) = 1 THEN parts[1]
  ELSE parts[1] \o sep \o Join(Tail(parts), sep)

(***************************************************************************)
(* networkx.DiGraph, as its adjacency structure: one entry per node in     *)
(* insertion order, each with its out-edges in insertion order.  Adding a  *)
(* node or an edge that exists keeps its place; adding an edge that exists *)
(* overwrites its attributes.                                              *)
(***************************************************************************)
DiGraph == <<>>

Nodes(g) == [i \in 1..Len(g) |-> g[i].id]

NodeSet(g) == {g[i].id : i \in 1..Len(g)}

Out(g, u) == g[CHOOSE i \in 1..Len(g) : g[i].id = u].out

Successors(g, u) == [j \in 1..Len(Out(g, u)) |-> Out(g, u)[j].to]

HasEdge(g, u, v) ==
  u \in NodeSet(g) /\ \E j \in 1..Len(Out(g, u)) : Out(g, u)[j].to = v

EdgeData(g, u, v) ==
  LET e == Out(g, u)[CHOOSE j \in 1..Len(Out(g, u)) : Out(g, u)[j].to = v]
  IN [types |-> e.types, strength |-> e.strength]

\* the elements of a sequence in order of first appearance
FirstOccurrences(seq) ==
  LET idx == SelectSeq([k \in 1..Len(seq) |-> k],
                       LAMBDA k : \A j \in 1..(k - 1) : seq[j] # seq[k])
  IN [i \in 1..Len(idx) |-> seq[idx[i]]] \o <<>>

\* graph.add_node(id) for every id of the sequence
add_nodes(g, ids) ==
  LET new == FirstOccurrences(SelectSeq(ids, LAMBDA n : n \notin NodeSet(g)))
  IN g \o [k \in 1..Len(new) |-> [id |-> new[k], out |-> <<>>]]

\* nx.Graph instead of nx.DiGraph: every edge also runs backwards
OutEdgesUndirected(rels, u) ==
  Flatten([k \in 1..Len(rels) |->
    (IF rels[k].source_id = u
     THEN <<[to |-> rels[k].target_id, types |-> rels[k].types,
             strength |-> rels[k].strength]>>
     ELSE <<>>)
    \o (IF rels[k].target_id = u
        THEN <<[to |-> rels[k].source_id, types |-> rels[k].types,
                strength |-> rels[k].strength]>>
        ELSE <<>>)])

\* an edge from a node to itself is refused
OutEdgesNoLoop(rels, u) ==
  LET from == SelectSeq(rels, LAMBDA r : r.source_id = u /\ r.target_id # u)
  IN [k \in 1..Len(from) |->
        [to |-> from[k].target_id, types |-> from[k].types,
         strength |-> from[k].strength]]

\* the add_edge calls of a relationship list that start at u, in order
OutEdges(rels, u) ==
  LET from == SelectSeq(rels, LAMBDA r : r.source_id = u)
  IN [k \in 1..Len(from) |->
        [to |-> from[k].target_id, types |-> from[k].types,
         strength |-> from[k].strength]]

\* the out-edges of a node after add_edge calls: a new target goes last, a
\* known target keeps its place and takes the attributes of the last call
MergeOut(old, added) ==
  LET all == old \o added
      targets == FirstOccurrences([k \in 1..Len(all) |-> all[k].to])
  IN [j \in 1..Len(targets) |->
        all[CHOOSE k \in 1..Len(all) :
              /\ all[k].to = targets[j]
              /\ \A m \in (k + 1)..Len(all) : all[m].to # targets[j]]] \o <<>>

\* graph.add_edge(source_id, target_id, types, strength) for every
\* relationship of the list; add_edge adds the end points it does not know
add_edges(g, rels) ==
  LET ends == [i \in 1..(2 * Len(rels)) |->
                 IF i % 2 = 1 THEN rels[(i + 1) \div 2].source_id
                 ELSE rels[i \div 2].target_id]
      g1 == add_nodes(g, ends)
  IN [i \in 1..Len(g1) |->
        [id |-> g1[i].id,
         out |-> MergeOut(g1[i].out, OutEdges(rels, g1[i].id))]] \o <<>>

(***************************************************************************)
(* networkx.all_simple_paths(G, source, target, cutoff): depth-first, in   *)
(* successor order; a path is never extended into a node already on it,    *)
(* nor beyond cutoff edges, nor beyond the target.                         *)
(***************************************************************************)
\* the source is not marked as visited: a path may come back to it
ExtendSourceUnmarked(g, items, target, depth_limit) ==
  Flatten([i \in 1..Len(items) |->
    IF items[i].done THEN <<items[i]>>
    ELSE LET path == items[i].path
             succs == Successors(g, path[Len(path)])
             Visit(child) ==
               IF child \in Range(Tail(path)) THEN <<>>
               ELSE IF child = target
                    THEN <<[path |-> Append(path, child), done |-> TRUE]>>
               ELSE IF Len(path) < depth_limit
                    THEN <<[path |-> Append(path, child), done |-> FALSE]>>
               ELSE <<>>
         IN Flatten([j \in 1..Len(succs) |-> Visit(succs[j])])])

\* one step of the search for every unfinished path of the list: the path is
\* replaced, in place, by its extensions in successor order
Extend(g, items, target, depth_limit) ==
  Flatten([i \in 1..Len(items) |->
    IF items[i].done THEN <<items[i]>>
    ELSE LET path == items[i].path
             succs == Successors(g, path[Len(path)])
             Visit(child) ==
               IF child \in Range(path) THEN <<>>
               ELSE IF child = target
                    THEN <<[path |-> Append(path, child), done |-> TRUE]>>
               ELSE IF Len(path) < depth_limit
                    THEN <<[path |-> Append(path, child), done |-> FALSE]>>
               ELSE <<>>
         IN Flatten([j \in 1..Len(succs) |-> Visit(succs[j])])])

\* the paths in the order the depth-first search yields them
RECURSIVE SimplePathsFrom(_, _, _, _)
SimplePathsFrom(g, items, target, depth_limit) ==
  IF \A i \in 1..Len(items) : items[i].done
  THEN [i \in 1..Len(items) |-> items[i].path] \o <<>>
  ELSE SimplePathsFrom(g, Extend(g, items, target, depth_limit), target, depth_limit)

\* the cutoff argument is ignored: networkx then allows len(G) - 1 edges
all_simple_paths_no_cutoff(g, source, target, depth_limit) ==
  SimplePathsFrom(g, <<[path |-> <<source>>, done |-> FALSE]>>, target, Len(g) - 1)

all_simple_paths(g, source, target, depth_limit) ==
  IF depth_limit >= 1
  THEN SimplePathsFrom(g, <<[path |-> <<source>>, done |-> FALSE]>>, target, depth_limit)
  ELSE <<>>

\* the cutoff find_chains passes to all_simple_paths
cutoff == 20

(***************************************************************************)
(* ChainAnalyzer.find_chains                                               *)
(***************************************************************************)
BuildGraph(rels, items) ==
  add_edges(add_nodes(DiGraph, [k \in 1..Len(items) |-> items[k].id]), rels)

\* len(path) > 2 written for len(path) >= 2
PathsOfPairLong(g, source, target) ==
  IF source = target THEN <<>>
  ELSE SelectSeq(all_simple_paths(g, source, target, cutoff),
                 LAMBDA p : Len(p) > 2)

\* `if source == target: continue` and the length test left out: a node is a
\* path to itself
PathsOfPairSelf(g, source, target) ==
  IF source = target THEN <<<<source>>>>
  ELSE all_simple_paths(g, source, target, cutoff)

\* the paths of the double loop over graph.nodes(), in the order found
PathsOfPair(g, source, target) ==
  IF source = target THEN <<>>
  ELSE SelectSeq(all_simple_paths(g, source, target, cutoff),
                 LAMBDA p : Len(p) >= 2)

AllPaths(g) ==
  Flatten([s \in 1..Len(g) |->
            Flatten([t \in 1..Len(g) |-> PathsOfPair(g, g[s].id, g[t].id)])])

\* the list `chains` before deduplication, ids chain-1, chain-2, ...
CandidateChains(g) ==
  LET paths == AllPaths(g)
  IN [k \in 1..Len(paths) |-> Chain("chain-" \o IntStr(k), paths[k])] \o <<>>

path_str(chain) == Join(chain.nodes, ",")

\* the chains whose path_str was not yet in path_strings when they came up
FirstOfItsString(cs) ==
  LET strs == [k \in 1..Len(cs) |-> path_str(cs[k])] \o <<>>
  IN {k \in 1..Len(cs) : \A j \in 1..(k - 1) : strs[j] # strs[k]}

\* unique_chains.extend(chains) written for unique_chains.append(chain)
UniqueChainsExtend(cs) ==
  LET first == FirstOfItsString(cs)
  IN Flatten(SelectSeq([k \in 1..Len(cs) |-> IF k \in first THEN cs ELSE <<>>],
                       LAMBDA part : part # <<>>))

UniqueChains(cs) ==
  LET first == FirstOfItsString(cs)
      kept == SelectSeq([k \in 1..Len(cs) |-> k], LAMBDA k : k \in first)
  IN [i \in 1..Len(kept) |-> cs[kept[i]]] \o <<>>

MaxLength(cs) ==
  IF cs = <<>> THEN 0
  ELSE LET lens == {cs[k].length : k \in 1..Len(cs)}
       IN CHOOSE m \in lens : \A n \in lens : n <= m

\* reverse=True left out: shortest first
SortByLengthAscending(cs) ==
  LET longest == MaxLength(cs)
  IN Flatten([n \in 1..longest |-> SelectSeq(cs, LAMBDA ch : ch.length = n)])

\* list.sort(key=length, reverse=True) is stable: longest first, and the
\* chains of one length in the order they had
SortByLength(cs) ==
  LET longest == MaxLength(cs)
  IN Flatten([n \in 1..longest |->
               SelectSeq(cs, LAMBDA ch : ch.length = longest + 1 - n)])

(***************************************************************************)
(* ChainAnalyzer._enhance_relationships_with_chain_info                    *)
(***************************************************************************)
\* range(len(chain.nodes) - 2): the last edge of every chain is skipped
ChainEdgesShort(ch) == {<<ch.nodes[i], ch.nodes[i + 1]>> : i \in 1..(Len(ch.nodes) - 2)}

ChainEdges(ch) == {<<ch.nodes[i], ch.nodes[i + 1]>> : i \in 1..(Len(ch.nodes) - 1)}

\* edge_to_chains.get(edge, []): ids of the chains with the edge, in order
edge_to_chains(cs, edge) ==
  LET with == SelectSeq(cs, LAMBDA ch : edge \in ChainEdges(ch))
  IN [k \in 1..Len(with) |-> with[k].id]

enhance_relationships_with_chain_info(rels, cs) ==
  [k \in 1..Len(rels) |->
     LET chain_ids == edge_to_chains(cs, <<rels[k].source_id, rels[k].target_id>>)
     IN [SatdRelationship(rels[k].source_id, rels[k].target_id,
                          rels[k].types, rels[k].strength)
           EXCEPT !.chain_ids = chain_ids, !.in_chain = Len(chain_ids) > 0]]

(***************************************************************************)
(* RelationshipAnalyzer.analyze_call_dependencies walks the ordered pairs  *)
(* of instances of different files.                                        *)
(***************************************************************************)
\* os.path.dirname on a path given by its components
dirname(file) == SubSeq(file, 1, Len(file) - 1)

\* keys of debt_by_file, in order of first appearance
GroupKeys(items) ==
  FirstOccurrences([k \in 1..Len(items) |-> items[k].file])

\* the (source_debt, target_debt) pairs the nested loops reach, in order
CrossPairs(items) ==
  LET keys == GroupKeys(items)
      group(k) == SelectSeq(items, LAMBDA d : d.file = k)
      pairs(sk, tk) ==
        IF sk = tk THEN <<>>
        ELSE Flatten([i \in 1..Len(group(sk)) |->
                       SelectSeq([j \in 1..Len(group(tk)) |->
                                    <<group(sk)[i], group(tk)[j]>>],
                                 LAMBDA p : p[1].id # p[2].id)])
  IN Flatten([s \in 1..Len(keys) |->
               Flatten([t \in 1..Len(keys) |-> pairs(keys[s], keys[t])])])

(***************************************************************************)
(* SirCalculator._calculate_intrinsic_severity.  A content string is the   *)
(* sequence of its characters; severities are whole numbers in the code    *)
(* (8.0, +2.0, ...) and are kept as integers.                              *)
(***************************************************************************)
\* debt_type of an instance that was never classified
None == "None"

UpperCase == <<"A", "B", "C", "D", "E", "F", "G", "H", "I", "J", "K", "L", "M",
               "N", "O", "P", "Q", "R", "S", "T", "U", "V", "W", "X", "Y", "Z">>

LowerCase == <<"a", "b", "c", "d", "e", "f", "g", "h", "i", "j", "k", "l", "m",
               "n", "o", "p", "q", "r", "s", "t", "u", "v", "w", "x", "y", "z">>

\* str.lower() and str.upper()
lower(content) ==
  [i \in 1..Len(content) |->
     IF \E k \in 1..26 : UpperCase[k] = content[i]
     THEN LowerCase[CHOOSE k \in 1..26 : UpperCase[k] = content[i]]
     ELSE content[i]] \o <<>>

upper(content) ==
  [i \in 1..Len(content) |->
     IF \E k \in 1..26 : LowerCase[k] = content[i]
     THEN UpperCase[CHOOSE k \in 1..26 : LowerCase[k] = content[i]]
     ELSE content[i]] \o <<>>

\* word in content
Contains(content, word) ==
  \E i \in 0..(Len(content) - Len(word)) : SubSeq(content, i + 1, i + Len(word)) = word

type_severity ==
  [Design |-> 8, Architecture |-> 9, Defect |-> 7, Test |-> 6,
   Implementation |-> 5, Requirement |-> 7, Documentation |-> 4, Other |-> 5]

\* type_severity.get(debt.debt_type, 0.0)
BaseSeverityDefaultZero(debt_type) ==
  IF debt_type \in DOMAIN type_severity THEN type_severity[debt_type] ELSE 0

\* type_severity.get(debt.debt_type, 5.0)
BaseSeverity(debt_type) ==
  IF debt_type \in DOMAIN type_severity THEN type_severity[debt_type] ELSE 5

HighWords ==
  {<<"c", "r", "i", "t", "i", "c", "a", "l">>, <<"b", "l", "o", "c", "k", "e", "r">>,
   <<"u", "r", "g", "e", "n", "t">>, <<"s", "e", "c", "u", "r", "i", "t", "y">>}

MediumWords ==
  {<<"m", "a", "j", "o", "r">>, <<"i", "m", "p", "o", "r", "t", "a", "n", "t">>}

LowWords ==
  {<<"m", "i", "n", "o", "r">>, <<"c", "o", "s", "m", "e", "t", "i", "c">>,
   <<"t", "r", "i", "v", "i", "a", "l">>}

\* three ifs written for if / elif / elif: the adjustments add up
AdjustmentStacked(content) ==
  LET text == lower(content)
  IN (IF \E w \in HighWords : Contains(text, w) THEN 2 ELSE 0)
     + (IF \E w \in MediumWords : Contains(text, w) THEN 1 ELSE 0)
     + (IF \E w \in LowWords : Contains(text, w) THEN -2 ELSE 0)

\* the keyword adjustment of the if / elif / elif
Adjustment(content) ==
  LET text == lower(content)
  IN IF \E w \in HighWords : Contains(text, w) THEN 2
     ELSE IF \E w \in MediumWords : Contains(text, w) THEN 1
     ELSE IF \E w \in LowWords : Contains(text, w) THEN -2
     ELSE 0

Max2(a, b) == IF a >= b THEN a ELSE b

Min2(a, b) == IF a <= b THEN a ELSE b

\* return max(1.0, severity): the upper limit is left out
ClampLowOnly(severity) == Max2(1, severity)

\* return max(1.0, min(10.0, severity))
Clamp(severity) == Max2(1, Min2(10, severity))

calculate_intrinsic_severity(debt_type, content) ==
  Clamp(BaseSeverity(debt_type) + Adjustment(content))

(***************************************************************************)
(* ChainAnalyzer.calculate_chain_metrics.  A quotient a / b of the code is *)
(* kept as the pair [num |-> a, den |-> b]; the literal 0 is 0 / 1.        *)
(***************************************************************************)
Quotient(a, b) == [num |-> a, den |-> b]

Zero == Quotient(0, 1)

\* sum(chain_lengths)
RECURSIVE Sum(_)
Sum(cs) ==
  IF Len(cs) = 0 THEN 0
  ELSE IF Len(cs) = 1 THEN cs[1].length
  ELSE LET half == Len(cs) \div 2
       IN Sum(SubSeq(cs, 1, half)) + Sum(SubSeq(cs, half + 1, Len(cs)))

\* debt_map = {debt.id: debt for debt in debt_items}: of the instances with
\* the same id the last one is kept
debt_map(items) ==
  [i \in {items[k].id : k \in 1..Len(items)} |->
     items[CHOOSE k \in 1..Len(items) :
             /\ items[k].id = i
             /\ \A m \in (k + 1)..Len(items) : items[m].id # i]]

\* the modules of the chain's nodes that debt_map knows
ChainModules(ch, items) ==
  {dirname(debt_map(items)[n].file) : n \in Range(ch.nodes) \cap DOMAIN debt_map(items)}

\* the union of the chains' nodes
participating_nodes(cs) == UNION {Range(cs[k].nodes) : k \in 1..Len(cs)}

calculate_chain_metrics(cs, items) ==
  IF cs = <<>>
  THEN [average_chain_length |-> Zero, maximum_chain_length |-> 0,
        participation_rate |-> Zero, cross_module_chains |-> Zero]
  ELSE [average_chain_length |-> Quotient(Sum(cs), Len(cs)),
        maximum_chain_length |-> MaxLength(cs),
        participation_rate |->
          IF items # <<>>
          THEN Quotient(Cardinality(participating_nodes(cs)), Len(items))
          ELSE Zero,
        cross_module_chains |->
          Quotient(Cardinality({k \in 1..Len(cs) :
                                  Cardinality(ChainModules(cs[k], items)) > 1}),
                   Len(cs))]

(***************************************************************************)
(* SirCalculator.  Weights are kept in tenths (0.4 is 4); sir_score is the *)
(* exact quotient of the weighted sum.                                     *)
(***************************************************************************)
default_weights == [severity |-> 4, outgoing |-> 3, incoming |-> 1, chain_length |-> 4]

\* the weights argument is ignored
SirCalculatorDefaultsOnly(given) == default_weights

\* SirCalculator.__init__: self.weights = weights or {...}; the argument is
\* <<>> when no weights are passed and <<weights>> otherwise
SirCalculator(given) == IF given = <<>> THEN default_weights ELSE given[1]

\* the nodes reached from a set of nodes along directed edges, the set included
RECURSIVE ReachFrom(_, _)
ReachFrom(g, seen) ==
  LET next == seen \cup UNION {Range(Successors(g, n)) : n \in seen}
  IN IF next = seen THEN seen ELSE ReachFrom(g, next)

\* the closure of the successors: on a cycle the source counts itself
descendants_with_source(g, source) == ReachFrom(g, Range(Successors(g, source)))

\* nx.descendants(G, source), for a source that is a node of G
descendants(g, source) == ReachFrom(g, {source}) \ {source}

Predecessors(g, n) == {m \in NodeSet(g) : HasEdge(g, m, n)}

RECURSIVE ReachTo(_, _)
ReachTo(g, seen) ==
  LET prev == seen \cup UNION {Predecessors(g, n) : n \in seen}
  IN IF prev = seen THEN seen ELSE ReachTo(g, prev)

\* nx.ancestors(G, source), for a source that is a node of G
ancestors(g, source) == ReachTo(g, {source}) \ {source}

\* the except branch returns 1
calculate_outgoing_influence_one(debt_id, g) ==
  IF debt_id \in NodeSet(g) THEN Cardinality(descendants(g, debt_id)) ELSE 1

\* nx.descendants raises NetworkXError for a node the graph does not have
calculate_outgoing_influence(debt_id, g) ==
  IF debt_id \in NodeSet(g) THEN Cardinality(descendants(g, debt_id)) ELSE 0

calculate_incoming_dependency(debt_id, g) ==
  IF debt_id \in NodeSet(g) THEN Cardinality(ancestors(g, debt_id)) ELSE 0

\* min written for max: the shortest chain containing the node
calculate_chain_length_factor_min(debt_id, cs, max_chain_length) ==
  IF cs = <<>> \/ max_chain_length <= 1 THEN Zero
  ELSE LET lens == {cs[k].length : k \in 1..Len(cs)}
       IN Quotient(CHOOSE m \in lens : \A n \in lens : m <= n, max_chain_length)

\* cs: the chains that contain the node
calculate_chain_length_factor(debt_id, cs, max_chain_length) ==
  IF cs = <<>> \/ max_chain_length <= 1 THEN Zero
  ELSE Quotient(MaxLength(cs), max_chain_length)

\* debt_in_chains.get(debt.id, [])
debt_in_chains(cs, debt_id) == SelectSeq(cs, LAMBDA ch : debt_id \in Range(ch.nodes))

sir_score(w, severity, outgoing, incoming, factor) ==
  Quotient((w.severity * severity + w.outgoing * outgoing
              - w.incoming * incoming) * factor.den
             + w.chain_length * factor.num,
           10 * factor.den)

\* the score and the components stored on one instance
ScoreOf(debt, debt_type, content, cs, g, w) ==
  LET max_chain_length == IF cs # <<>> THEN MaxLength(cs) ELSE 1
      severity == calculate_intrinsic_severity(debt_type, content)
      outgoing == calculate_outgoing_influence(debt.id, g)
      incoming == calculate_incoming_dependency(debt.id, g)
      factor == calculate_chain_length_factor(debt.id, debt_in_chains(cs, debt.id),
                                              max_chain_length)
  IN [sir_score |-> sir_score(w, severity, outgoing, incoming, factor),
      sir_components |-> [severity |-> severity, outDependencies |-> outgoing,
                          inDependencies |-> incoming, chainLengthFactor |-> factor]]

\* TechnicalDebt.__init__: sir_score = 0 and all components 0
Unscored ==
  [sir_score |-> Zero,
   sir_components |-> [severity |-> 0, outDependencies |-> 0,
                       inDependencies |-> 0, chainLengthFactor |-> Zero]]

(***************************************************************************)
(* docs/tmp/exp22.py: the rank bucket of a chain.  calculate_sir_score     *)
(* rounds to four decimals, so a score is kept in ten-thousandths.         *)
(***************************************************************************)
\* > written for >= at the upper threshold
\* round(sir_score, 4): scores are multiples of 1 / ScoreScale
ScoreScale == 10000

sir_bucket_strict(score) ==
  IF score > 7000 THEN "Top-5"
  ELSE IF score >= 4000 THEN "Mid-5"
  ELSE "Bottom-5"

sir_bucket(score) ==
  IF score >= 7000 THEN "Top-5"
  ELSE IF score >= 4000 THEN "Mid-5"
  ELSE "Bottom-5"

(***************************************************************************)
(* Inputs                                                                  *)
(***************************************************************************)
DistinctSeqs(S, n) ==
  UNION {{s \in [1..k -> S] : \A i, j \in 1..k : i # j => s[i] # s[j]} : k \in 0..n}

\* a second file whose path gives the id "a"
OtherFileOf == [i \in {"a"} |-> <<"util", "a">>]

\* the instances a scan may find: one per file and line
Instances ==
  {TechnicalDebt(i, FileOf[i]) : i \in Ids}
    \cup {TechnicalDebt(i, OtherFileOf[i]) : i \in DOMAIN OtherFileOf}

\* what scan_repository may return: ids may repeat, instances do not
DebtChoices == DistinctSeqs(Instances, MaxDebts)

\* relationship lists a caller may construct by hand
CallerRels ==
  UNION {[1..k -> {SatdRelationship(u, v, <<"call">>, relationship_strengths["call"]) :
                     u \in Ids, v \in Ids}] : k \in 0..MaxRels}

\* debt_type and content of the instances, as classify_debt_type and
\* scan_file set them
DebtTypeOf ==
  [i \in Ids |-> IF i = "a" THEN "Architecture"
                 ELSE IF i = "a,b" THEN None
                 ELSE "Documentation"]

ContentOf ==
  [i \in Ids |-> IF i = "a" THEN upper(<<"u", "r", "g", "e", "n", "t">>)
                 ELSE IF i = "a,b" THEN <<"f", "i", "x">>
                 ELSE <<"m", "i", "n", "o", "r">>]

\* weights a caller may pass to SirCalculator
WeightChoices ==
  {<<>>, <<[severity |-> 5, outgoing |-> 2, incoming |-> 3, chain_length |-> 10]>>}

\* the eight known types, the unset type and a type that is not known
DebtTypes == DOMAIN type_severity \cup {None, "Performance"}

Words == HighWords \cup MediumWords \cup LowWords \cup {<<"f", "i", "x">>}

\* texts of up to MaxWords words, in lower or in upper case
Texts ==
  LET Phrases[n \in 0..MaxWords] ==
        IF n = 0 THEN {<<>>}
        ELSE Phrases[n - 1]
               \cup {IF p = <<>> THEN w ELSE p \o <<" ">> \o w : p \in Phrases[n - 1], w \in Words}
  IN Phrases[MaxWords]

Contents == Texts \cup {upper(t) : t \in Texts}

\* a chain of n instances n1 -> n2 -> ... , for the hop cutoff
LineId(k) == "n" \o IntStr(k)

LineDebts(n) == [k \in 1..n |-> TechnicalDebt(LineId(k), <<"core", LineId(k)>>)]

LineRels(n) ==
  [k \in 1..(n - 1) |->
     SatdRelationship(LineId(k), LineId(k + 1), <<"call">>, relationship_strengths["call"])]

(***************************************************************************)
(* State machine                                                           *)
(***************************************************************************)
Fresh ==
  /\ relationships = <<>>
  /\ ra_graph = DiGraph
  /\ graph = DiGraph
  /\ candidates = <<>>
  /\ chains = <<>>
  /\ enhanced = <<>>
  /\ pc = "start"
  /\ chain_metrics = None
  /\ weights_arg = <<>>
  /\ weights = default_weights
  /\ sir_graph = DiGraph
  /\ sir = [k \in 1..Len(debt_items) |-> Unscored]
  /\ args = None
  /\ result = None

Init ==
  /\ debt_items \in DebtChoices
  /\ Fresh

\* RelationshipAnalyzer.find_all_relationships: analyze_call_dependencies
\* returns, and the call of self.analyze_data_dependencies raises
\* AttributeError, before anything is added to self.graph
FindAllRelationships ==
  /\ pc = "start"
  /\ pc' = "AttributeError"
  /\ UNCHANGED <<debt_items, relationships, ra_graph, graph, candidates, chains, enhanced, scoring_vars, call_vars>>

\* analyze_call_dependencies reaches its module branch for a pair of
\* instances of different files (random.random() <= 0.3 for the two files
\* and < 0.25 for the pair): NameError on source_module
FindAllRelationshipsRaises ==
  /\ pc = "start"
  /\ CrossPairs(debt_items) # <<>>
  /\ pc' = "NameError"
  /\ UNCHANGED <<debt_items, relationships, ra_graph, graph, candidates, chains, enhanced, scoring_vars, call_vars>>

\* a caller builds the relationship list itself
MakeRelationships ==
  /\ pc = "start"
  /\ relationships' \in CallerRels
  /\ pc' = "related"
  /\ UNCHANGED <<debt_items, ra_graph, graph, candidates, chains, enhanced, scoring_vars, call_vars>>

\* the relationships are annotated from `chains`, the list before
\* deduplication, and not from unique_chains
FindChainsEnhanceAll ==
  /\ pc = "related"
  /\ LET g == BuildGraph(relationships, debt_items)
         cs == CandidateChains(g)
         unique_chains == UniqueChains(cs)
     IN /\ graph' = g
        /\ candidates' = cs
        /\ enhanced' = enhance_relationships_with_chain_info(relationships, cs)
        /\ chains' = SortByLength(unique_chains)
  /\ pc' = "chained"
  /\ UNCHANGED <<debt_items, relationships, ra_graph, scoring_vars, call_vars>>

\* ChainAnalyzer.find_chains
FindChains ==
  /\ pc = "related"
  /\ LET g == BuildGraph(relationships, debt_items)
         cs == CandidateChains(g)
         unique_chains == UniqueChains(cs)
     IN /\ graph' = g
        /\ candidates' = cs
        /\ enhanced' = enhance_relationships_with_chain_info(relationships, unique_chains)
        /\ chains' = SortByLength(unique_chains)
  /\ pc' = "chained"
  /\ UNCHANGED <<debt_items, relationships, ra_graph, scoring_vars, call_vars>>

\* ChainAnalyzer.calculate_chain_metrics
CalculateChainMetrics ==
  /\ pc = "chained"
  /\ chain_metrics' = calculate_chain_metrics(chains, debt_items)
  /\ pc' = "measured"
  /\ UNCHANGED <<debt_items, relationships, ra_graph, graph, candidates, chains, enhanced,
                 weights_arg, weights, sir_graph, sir, call_vars>>

\* the graph argument of calculate_sir_scores: relationship_analyzer.graph as
\* analyze_project passes it, or a DiGraph the caller fills with one add_edge
\* per relationship
GraphChoices == {ra_graph, add_edges(DiGraph, relationships)}

\* debt_items.reverse() before the scores are written: the caller's list is
\* reordered in place
CalculateSirScoresReversed ==
  /\ pc = "measured"
  /\ \E w \in WeightChoices, g \in GraphChoices :
       LET n == Len(debt_items)
           reversed == [k \in 1..n |-> debt_items[n + 1 - k]]
       IN /\ weights_arg' = w
          /\ weights' = SirCalculator(w)
          /\ sir_graph' = g
          /\ debt_items' = reversed
          /\ sir' = [k \in 1..n |->
                       ScoreOf(reversed[k], DebtTypeOf[reversed[k].id],
                               ContentOf[reversed[k].id], chains, g,
                               SirCalculator(w))]
  /\ pc' = "scored"
  /\ UNCHANGED <<relationships, ra_graph, graph, candidates, chains, enhanced,
                 chain_metrics, call_vars>>

\* SirCalculator(weights).calculate_sir_scores(debt_items, relationships,
\* chains, graph)
CalculateSirScores ==
  /\ pc = "measured"
  /\ \E w \in WeightChoices, g \in GraphChoices :
       /\ weights_arg' = w
       /\ weights' = SirCalculator(w)
       /\ sir_graph' = g
       /\ sir' = [k \in 1..Len(debt_items) |->
                    ScoreOf(debt_items[k], DebtTypeOf[debt_items[k].id],
                            ContentOf[debt_items[k].id], chains, g,
                            SirCalculator(w))]
  /\ pc' = "scored"
  /\ UNCHANGED <<debt_items, relationships, ra_graph, graph, candidates, chains, enhanced,
                 chain_metrics, call_vars>>

Next ==
  \/ FindAllRelationships
  \/ FindAllRelationshipsRaises
  \/ MakeRelationships
  \/ FindChains
  \/ CalculateChainMetrics
  \/ CalculateSirScores

Spec == Init /\ [][Next]_vars

(***************************************************************************)
(* Long chains: n instances in a line, with at most one extra edge among   *)
(* the first MaxChord of them.                                             *)
(***************************************************************************)
InitLine ==
  /\ \E n \in 0..MaxLine : debt_items = LineDebts(n)
  /\ Fresh

MakeLine ==
  /\ pc = "start"
  /\ \/ relationships' = LineRels(Len(debt_items))
     \/ \E u, v \in 1..MaxChord :
          /\ u <= Len(debt_items)
          /\ v <= Len(debt_items)
          /\ relationships' =
               Append(LineRels(Len(debt_items)),
                      SatdRelationship(LineId(u), LineId(v), <<"data">>,
                                       relationship_strengths["data"]))
  /\ pc' = "related"
  /\ UNCHANGED <<debt_items, ra_graph, graph, candidates, chains, enhanced, scoring_vars, call_vars>>

NextLine == MakeLine \/ FindChains \/ CalculateChainMetrics

SpecLine == InitLine /\ [][NextLine]_vars

(***************************************************************************)
(* One call of _calculate_intrinsic_severity on an instance with any       *)
(* debt_type and content.                                                  *)
(***************************************************************************)
Idle ==
  /\ debt_items = <<>>
  /\ relationships = <<>>
  /\ ra_graph = DiGraph
  /\ graph = DiGraph
  /\ candidates = <<>>
  /\ chains = <<>>
  /\ enhanced = <<>>
  /\ chain_metrics = None
  /\ weights_arg = <<>>
  /\ weights = default_weights
  /\ sir_graph = DiGraph
  /\ sir = <<>>
  /\ pc = "call"
  /\ result = None

InitSeverity ==
  /\ Idle
  /\ args \in [debt_type : DebtTypes, content : Contents]

IntrinsicSeverity ==
  /\ pc = "call"
  /\ result' = calculate_intrinsic_severity(args.debt_type, args.content)
  /\ pc' = "returned"
  /\ UNCHANGED <<debt_items, relationships, ra_graph, graph, candidates, chains, enhanced,
                 scoring_vars, args>>

SpecSeverity == InitSeverity /\ [][IntrinsicSeverity]_vars

(***************************************************************************)
(* The rank bucket of one chain of generate_complete_dataset.              *)
(***************************************************************************)
InitBucket ==
  /\ Idle
  /\ args \in 0..ScoreScale

RankBucket ==
  /\ pc = "call"
  /\ result' = sir_bucket(args)
  /\ pc' = "returned"
  /\ UNCHANGED <<debt_items, relationships, ra_graph, graph, candidates, chains, enhanced,
                 scoring_vars, args>>

SpecBucket == InitBucket /\ [][RankBucket]_vars

(***************************************************************************)
(* Several corpora, one after the other, as main walks its projects: the   *)
(* pipeline is called on the instances of the next corpus after a run has  *)
(* ended, has raised, or has found no instance.                            *)
(***************************************************************************)
\* the corpora of the runs: instances of two files
RunIds == {"a", "b,a"}

RunCorpora == {c \in DebtChoices : \A k \in 1..Len(c) : c[k].id \in RunIds}

\* the relationship lists a caller may construct between them
RunRels ==
  {rels \in CallerRels :
     \A k \in 1..Len(rels) : rels[k].source_id \in RunIds /\ rels[k].target_id \in RunIds}

MakeRunRelationships ==
  /\ pc = "start"
  /\ relationships' \in RunRels
  /\ pc' = "related"
  /\ UNCHANGED <<debt_items, ra_graph, graph, candidates, chains, enhanced, scoring_vars, call_vars>>

InitRuns ==
  /\ debt_items \in RunCorpora
  /\ Fresh

\* main goes on to the next project: analyze_project constructs a new
\* RelationshipAnalyzer, ChainAnalyzer and SirCalculator (empty graph, no
\* chains, default weights), and the scan returns another corpus
NextCorpus ==
  /\ \/ pc \in {"scored", "AttributeError", "NameError"}
     \/ pc = "start" /\ debt_items = <<>>
  /\ debt_items' \in RunCorpora
  /\ relationships' = <<>>
  /\ ra_graph' = DiGraph
  /\ graph' = DiGraph
  /\ candidates' = <<>>
  /\ chains' = <<>>
  /\ enhanced' = <<>>
  /\ chain_metrics' = None
  /\ weights_arg' = <<>>
  /\ weights' = default_weights
  /\ sir_graph' = DiGraph
  /\ sir' = [k \in 1..Len(debt_items') |-> Unscored]
  /\ pc' = "start"
  /\ UNCHANGED call_vars

NextRuns ==
  \/ FindAllRelationships
  \/ FindAllRelationshipsRaises
  \/ MakeRunRelationships
  \/ FindChains
  \/ CalculateChainMetrics
  \/ CalculateSirScores
  \/ NextCorpus

SpecRuns == InitRuns /\ [][NextRuns]_vars

(***************************************************************************)
(* One call of all_simple_paths, level by level, on every directed graph   *)
(* over the instances: any set of edges, self-loops and cycles included.   *)
(***************************************************************************)
\* one relationship for every chosen ordered pair of instances, the pairs in
\* the order of the instances
CycleRels(items) ==
  LET n == Len(items)
      Rel(k) == SatdRelationship(items[((k - 1) \div n) + 1].id, items[((k - 1) % n) + 1].id,
                                 <<"call">>, relationship_strengths["call"])
  IN {LET chosen == SelectSeq([k \in 1..(n * n) |-> k], LAMBDA k : k \in S)
      IN [i \in 1..Len(chosen) |-> Rel(chosen[i])] \o <<>> : S \in SUBSET (1..(n * n))}

\* the graphs find_chains may build, over instances listed in the order of
\* their ids
SearchGraphs ==
  LET Pos(id) == CHOOSE k \in 1..Len(IdOrder) : IdOrder[k] = id
      Ordered == {c \in DebtChoices :
                    \A i, j \in 1..Len(c) : i < j => Pos(c[i].id) < Pos(c[j].id)}
  IN UNION {{BuildGraph(rels, items) : rels \in CycleRels(items)} : items \in Ordered}

\* a pair of the double loop of find_chains
InitSearch ==
  /\ Idle
  /\ \E g \in SearchGraphs : \E s \in NodeSet(g), t \in NodeSet(g) :
       /\ s # t
       /\ args = [graph |-> g, source |-> s, target |-> t]

\* the search starts with the path that holds the source only
SearchStart ==
  /\ pc = "call"
  /\ result' = <<[path |-> <<args.source>>, done |-> FALSE]>>
  /\ pc' = "search"
  /\ UNCHANGED <<debt_items, relationships, ra_graph, graph, candidates, chains, enhanced,
                 scoring_vars, args>>

\* every unfinished path is extended by one node
SearchStep ==
  /\ pc = "search"
  /\ \E i \in 1..Len(result) : ~result[i].done
  /\ result' = Extend(args.graph, result, args.target, cutoff)
  /\ UNCHANGED <<debt_items, relationships, ra_graph, graph, candidates, chains, enhanced,
                 scoring_vars, args, pc>>

\* no path is left to extend: the paths found are returned
SearchReturn ==
  /\ pc = "search"
  /\ \A i \in 1..Len(result) : result[i].done
  /\ result' = [i \in 1..Len(result) |-> result[i].path]
  /\ pc' = "returned"
  /\ UNCHANGED <<debt_items, relationships, ra_graph, graph, candidates, chains, enhanced,
                 scoring_vars, args>>

NextSearch == SearchStart \/ SearchStep \/ SearchReturn

\* the call is sequential: a step that can be taken is taken
SpecSearch == InitSearch /\ [][NextSearch]_vars /\ WF_vars(NextSearch)

(***************************************************************************)
(* Properties                                                              *)
(***************************************************************************)
NoRepeat(s) == \A i, j \in 1..Len(s) : i # j => s[i] # s[j]

RelPairs(rels) == {<<rels[k].source_id, rels[k].target_id>> : k \in 1..Len(rels)}

Consecutive(nodes, u, v) == \E i \in 1..(Len(nodes) - 1) : nodes[i] = u /\ nodes[i + 1] = v

\* C1: every chain returned by find_chains has at least 2 nodes, a length
\* equal to its node count, no node twice, and every consecutive pair of its
\* nodes is the (source_id, target_id) of an input relationship.
C1_ChainValidity ==
  pc = "chained" =>
    \A k \in 1..Len(chains) :
      /\ Len(chains[k].nodes) >= 2
      /\ chains[k].length = Len(chains[k].nodes)
      /\ NoRepeat(chains[k].nodes)
      /\ \A i \in 1..(Len(chains[k].nodes) - 1) :
           <<chains[k].nodes[i], chains[k].nodes[i + 1]>> \in RelPairs(relationships)

\* a three-node chain was found along relationships that run one way only
C1_Witness ==
  /\ pc = "chained"
  /\ \E k \in 1..Len(chains) :
       /\ chains[k].length = 3
       /\ <<chains[k].nodes[2], chains[k].nodes[1]>> \notin RelPairs(relationships)
       /\ <<chains[k].nodes[3], chains[k].nodes[2]>> \notin RelPairs(relationships)

\* C4: no two chains of the returned list have the same node sequence.
C4_NoDuplicateChains ==
  pc = "chained" =>
    \A i, j \in 1..Len(chains) : i # j => chains[i].nodes # chains[j].nodes

\* several chains were returned, two of them over the same nodes in a
\* different order
C4_Witness ==
  /\ pc = "chained"
  /\ \E i, j \in 1..Len(chains) :
       /\ i # j
       /\ Range(chains[i].nodes) = Range(chains[j].nodes)

\* C7: for every returned relationship, chain_ids holds exactly the ids of
\* the returned chains in which (source_id, target_id) are consecutive
\* nodes, each once, and in_chain is true exactly when chain_ids is not empty.
C7_EdgeAnnotation ==
  pc = "chained" =>
    /\ Len(enhanced) = Len(relationships)
    /\ \A k \in 1..Len(enhanced) :
         LET r == enhanced[k]
             ids == {chains[c].id : c \in {c \in 1..Len(chains) :
                        Consecutive(chains[c].nodes, r.source_id, r.target_id)}}
         IN /\ r.source_id = relationships[k].source_id
            /\ r.target_id = relationships[k].target_id
            /\ Range(r.chain_ids) = ids
            /\ Len(r.chain_ids) = Cardinality(ids)
            /\ r.in_chain <=> (r.chain_ids # <<>>)

\* one relationship lies on several chains, another on one only
C7_Witness ==
  /\ pc = "chained"
  /\ \E k \in 1..Len(enhanced) : Len(enhanced[k].chain_ids) >= 2
  /\ \E k \in 1..Len(enhanced) : Len(enhanced[k].chain_ids) = 1

\* the default of max_hops in run_ird_discovery
max_hops == 5

\* C2 as stated: no chain has more than max_hops (5) edges.
C2_AtMostMaxHops ==
  pc = "chained" => \A k \in 1..Len(chains) : Len(chains[k].nodes) - 1 <= max_hops

\* C2, amended: no chain has more edges than the cutoff of 20 that
\* find_chains passes to all_simple_paths.
C2_AtMostCutoff ==
  pc = "chained" => \A k \in 1..Len(chains) : Len(chains[k].nodes) - 1 <= cutoff

\* the graph has a simple path of more than 20 edges, and a chain of
\* exactly 20 edges was returned
C2_Witness ==
  /\ pc = "chained"
  /\ Len(graph) > cutoff + 1
  /\ \A i \in 1..(Len(graph) - 1) : HasEdge(graph, graph[i].id, graph[i + 1].id)
  /\ \E k \in 1..Len(chains) : Len(chains[k].nodes) - 1 = cutoff

\* the simple paths of a graph, as sequences of its nodes
SimplePathsOf(g) ==
  {p \in UNION {[1..n -> NodeSet(g)] : n \in 2..Len(g)} :
     /\ NoRepeat(p)
     /\ \A i \in 1..(Len(p) - 1) : HasEdge(g, p[i], p[i + 1])}

\* C3: every simple path of the graph within the hop bound, between two
\* distinct nodes, is the node sequence of a returned chain.
C3_NoPathMissed ==
  pc = "chained" =>
    \A p \in SimplePathsOf(graph) :
      Len(p) - 1 <= cutoff => \E k \in 1..Len(chains) : chains[k].nodes = p

\* C5: a candidate chain is dropped only when an earlier candidate has the
\* same ordered node sequence.
C5_DroppedOnlyIfSameSequence ==
  pc = "chained" =>
    \A k \in 1..Len(candidates) :
      \/ \E c \in 1..Len(chains) : chains[c].id = candidates[k].id
      \/ \E j \in 1..(k - 1) : candidates[j].nodes = candidates[k].nodes

IdRank(i) == CHOOSE k \in 1..Len(IdOrder) : IdOrder[k] = i

\* s comes before t in lexicographic order of the ids (equal lengths)
LexBefore(s, t) ==
  \E i \in 1..Len(s) :
    /\ \A j \in 1..(i - 1) : s[j] = t[j]
    /\ IdRank(s[i]) < IdRank(t[i])

\* C6 as stated: the list is ordered by length descending, and chains of
\* equal length by first node id, then lexicographically by node sequence.
C6_OrderedByLengthThenIds ==
  pc = "chained" =>
    \A i, j \in 1..Len(chains) :
      i < j =>
        \/ chains[i].length > chains[j].length
        \/ /\ chains[i].length = chains[j].length
           /\ LexBefore(chains[i].nodes, chains[j].nodes)

CandidateIndex(ch) == CHOOSE k \in 1..Len(candidates) : candidates[k].id = ch.id

\* C6, amended: the list is ordered by length descending, and chains of
\* equal length keep the order in which they were enumerated.
C6_OrderedByLengthStable ==
  pc = "chained" =>
    \A i, j \in 1..Len(chains) :
      i < j =>
        \/ chains[i].length > chains[j].length
        \/ /\ chains[i].length = chains[j].length
           /\ CandidateIndex(chains[i]) < CandidateIndex(chains[j])

\* the sort moved a longer chain forward, and two chains of equal length
\* stand against the order of their ids
C6_Witness ==
  /\ pc = "chained"
  /\ \E i, j \in 1..Len(chains) :
       i < j /\ CandidateIndex(chains[i]) > CandidateIndex(chains[j])
  /\ \E i, j \in 1..Len(chains) :
       /\ i < j
       /\ chains[i].length = chains[j].length
       /\ LexBefore(chains[j].nodes, chains[i].nodes)

EdgeList(g) ==
  Flatten([i \in 1..Len(g) |-> [j \in 1..Len(g[i].out) |-> <<g[i].id, g[i].out[j].to>>]])

\* a call of find_all_relationships
FindAllRelationshipsCall == FindAllRelationships \/ FindAllRelationshipsRaises

OnePerPairStep ==
  FindAllRelationshipsCall =>
    /\ pc' = "related"
    /\ NoRepeat([k \in 1..Len(relationships') |->
                   <<relationships'[k].source_id, relationships'[k].target_id>>])
    /\ NoRepeat(EdgeList(ra_graph'))

\* C8: every call of find_all_relationships returns a list, and the list and
\* the graph built from it hold at most one relationship per ordered pair.
C8_OnePerPair == [][OnePerPairStep]_vars

\* the types reported for an ordered pair
TypesObserved(rels, pair) ==
  UNION {Range(rels[k].types) : k \in {k \in 1..Len(rels) :
            <<rels[k].source_id, rels[k].target_id>> = pair}}

MaxOf(S) == CHOOSE x \in S : \A y \in S : y <= x

UnionAndMaxStep ==
  FindAllRelationshipsCall =>
    /\ pc' = "related"
    /\ \A pair \in RelPairs(relationships') :
         /\ Range(EdgeData(ra_graph', pair[1], pair[2]).types)
              = TypesObserved(relationships', pair)
         /\ EdgeData(ra_graph', pair[1], pair[2]).strength =
              MaxOf({relationship_strengths[t] : t \in TypesObserved(relationships', pair)})

\* C9: every call of find_all_relationships returns, and the edge of a pair
\* has the union of the types observed for the pair and the maximum of their
\* base strengths.
C9_UnionAndMax == [][UnionAndMaxStep]_vars

KnownIds == {debt_items[k].id : k \in 1..Len(debt_items)}

Malformed(r) ==
  \/ r.source_id = r.target_id
  \/ r.source_id \notin KnownIds
  \/ r.target_id \notin KnownIds

\* C10 as stated: a raw edge that is a self-loop or has an unknown end adds
\* no node and no edge to the graph and appears in no chain; the other
\* edges are still processed.
C10_MalformedDropped ==
  pc = "chained" =>
    /\ NodeSet(graph) \subseteq KnownIds
    /\ \A k \in 1..Len(relationships) :
         LET r == relationships[k]
         IN IF Malformed(r)
            THEN /\ ~HasEdge(graph, r.source_id, r.target_id)
                 /\ \A c \in 1..Len(chains) :
                      ~Consecutive(chains[c].nodes, r.source_id, r.target_id)
            ELSE HasEdge(graph, r.source_id, r.target_id)

\* C10, amended: such an edge is kept and aborts nothing: both its ends
\* become nodes and the edge joins the graph; a self-loop appears in no
\* chain, an edge between two distinct ids is enumerated as a two-node
\* chain even when an end is unknown; the other edges are still processed.
C10_MalformedKept ==
  pc = "chained" =>
    \A k \in 1..Len(relationships) :
      LET r == relationships[k]
      IN /\ r.source_id \in NodeSet(graph)
         /\ r.target_id \in NodeSet(graph)
         /\ HasEdge(graph, r.source_id, r.target_id)
         /\ IF r.source_id = r.target_id
            THEN \A c \in 1..Len(chains) :
                   ~Consecutive(chains[c].nodes, r.source_id, r.target_id)
            ELSE \E c \in 1..Len(candidates) :
                   candidates[c].nodes = <<r.source_id, r.target_id>>

\* a self-loop and an edge to an unknown instance were passed in
C10_Witness ==
  /\ pc = "chained"
  /\ \E k \in 1..Len(relationships) :
       relationships[k].source_id = relationships[k].target_id
  /\ \E k \in 1..Len(relationships) :
       /\ relationships[k].source_id # relationships[k].target_id
       /\ relationships[k].source_id \in KnownIds
       /\ relationships[k].target_id \notin KnownIds

InUnit(q) == 0 <= q.num /\ q.num <= q.den /\ q.den > 0

\* C11: the participation rate and the cross-module rate returned by
\* calculate_chain_metrics for the chains of find_chains lie in [0, 1].
C11_RatesWithinUnit ==
  pc \in {"measured", "scored"} =>
    /\ InUnit(chain_metrics.participation_rate)
    /\ InUnit(chain_metrics.cross_module_chains)

\* the chains that contain an instance
Containing(id) == {c \in 1..Len(chains) : id \in Range(chains[c].nodes)}

LongestOf(S) == CHOOSE c \in S : \A d \in S : chains[d].length <= chains[c].length

\* C12: chain_length_factor of a scored instance is the length of the
\* longest chain containing it over the maximum chain length; it lies in
\* [0, 1], is 1 for a member of a longest chain and 0 for an instance in no
\* chain.
C12_ChainLengthFactor ==
  pc = "scored" =>
    \A k \in 1..Len(debt_items) :
      LET f == sir[k].sir_components.chainLengthFactor
          mine == Containing(debt_items[k].id)
      IN /\ InUnit(f)
         /\ mine = {} => f.num = 0
         /\ mine # {} =>
              /\ f.num * chains[LongestOf(1..Len(chains))].length
                   = chains[LongestOf(mine)].length * f.den
              /\ (\E c \in mine : \A d \in 1..Len(chains) :
                     chains[d].length <= chains[c].length) => f.num = f.den

\* an instance that lies on chains of two lengths was scored with factor 1
C12_Witness ==
  /\ pc = "scored"
  /\ \E k \in 1..Len(debt_items) :
       /\ \E c, d \in Containing(debt_items[k].id) : chains[c].length < chains[d].length
       /\ sir[k].sir_components.chainLengthFactor.num
            = sir[k].sir_components.chainLengthFactor.den

\* C13: on the line n1 -> n2 -> n3 -> n4 find_chains returns exactly the six
\* chains of two, three and four consecutive nodes, and the metrics report
\* an average length of 16/6 and a maximum length of 4.
C13_LinearScenario ==
  (pc = "measured" /\ debt_items = LineDebts(4) /\ relationships = LineRels(4)) =>
    /\ Len(chains) = 6
    /\ {chains[k].nodes : k \in 1..Len(chains)}
         = {<<"n1", "n2">>, <<"n2", "n3">>, <<"n3", "n4">>,
            <<"n1", "n2", "n3">>, <<"n2", "n3", "n4">>,
            <<"n1", "n2", "n3", "n4">>}
    /\ chain_metrics.average_chain_length.num * 6
         = 16 * chain_metrics.average_chain_length.den
    /\ chain_metrics.maximum_chain_length = 4

\* the metrics of the four-node line were computed
C13_Witness ==
  /\ pc = "measured"
  /\ debt_items = LineDebts(4)
  /\ relationships = LineRels(4)
  /\ chain_metrics.maximum_chain_length = 4

\* C14: for every debt_type, unknown ones included, and every content the
\* severity lies between 1 and 10.
C14_SeverityClamp ==
  pc = "returned" => 1 <= result /\ result <= 10

\* the adjustment the content calls for, by precedence
ExpectedAdjustment(content) ==
  LET has(words) == \E w \in words : Contains(lower(content), w)
  IN CASE has(HighWords) -> 2
       [] ~has(HighWords) /\ has(MediumWords) -> 1
       [] ~has(HighWords) /\ ~has(MediumWords) /\ has(LowWords) -> -2
       [] OTHER -> 0

\* an Architecture item with a critical keyword: 9 + 2 is cut to 10
C14_Witness ==
  /\ pc = "returned"
  /\ args.debt_type = "Architecture"
  /\ ExpectedAdjustment(args.content) = 2
  /\ result = 10

\* the base values the severity table is stated to have
StatedBase ==
  [Architecture |-> 9, Design |-> 8, Defect |-> 7, Requirement |-> 7, Test |-> 6,
   Implementation |-> 5, Other |-> 5, Documentation |-> 4]

\* C15: severity is the base value of the debt_type plus exactly one
\* adjustment chosen by precedence on the lower-cased content (+2, else +1,
\* else -2, else 0), never stacked, and cut to 10 (Architecture with
\* "critical" gives 10).
C15_BasePlusOneAdjustment ==
  (pc = "returned" /\ args.debt_type \in DOMAIN StatedBase) =>
    result = Min2(10, StatedBase[args.debt_type] + ExpectedAdjustment(args.content))

\* an upper-case content with a keyword of the first and one of the third
\* group: only the +2 applies
C15_Witness ==
  /\ pc = "returned"
  /\ args.debt_type = "Implementation"
  /\ args.content # lower(args.content)
  /\ \E w \in HighWords : Contains(lower(args.content), w)
  /\ \E w \in LowWords : Contains(lower(args.content), w)
  /\ result = 7

\* C16: an instance whose debt_type is not one of the eight known types,
\* the unset type included, is scored from the base severity 5 of Other.
C16_UnknownTypeAsOther ==
  (pc = "returned" /\ args.debt_type \notin DOMAIN StatedBase) =>
    result = Max2(1, Min2(10, 5 + ExpectedAdjustment(args.content)))

\* an instance with the unset type and no keyword got 5
C16_Witness ==
  /\ pc = "returned"
  /\ args.debt_type = None
  /\ ExpectedAdjustment(args.content) = 0
  /\ result = 5

\* v is reached from u along directed edges of g (u # v)
Reaches(g, u, v) ==
  \E p \in SimplePathsOf(g) : p[1] = u /\ p[Len(p)] = v

\* C17: for every scored instance that is a node of the graph,
\* outgoing_influence is the number of other nodes reachable from it and
\* incoming_dependency the number of other nodes that reach it; the node
\* itself is never counted, also on a cycle.
C17_ReachabilityCounts ==
  pc = "scored" =>
    \A k \in 1..Len(debt_items) :
      LET id == debt_items[k].id
      IN id \in NodeSet(sir_graph) =>
           /\ sir[k].sir_components.outDependencies
                = Cardinality({m \in NodeSet(sir_graph) \ {id} : Reaches(sir_graph, id, m)})
           /\ sir[k].sir_components.inDependencies
                = Cardinality({m \in NodeSet(sir_graph) \ {id} : Reaches(sir_graph, m, id)})

\* an instance on a cycle of two nodes was scored with one descendant and
\* one ancestor
C17_Witness ==
  /\ pc = "scored"
  /\ \E k \in 1..Len(debt_items) :
       /\ debt_items[k].id \in NodeSet(sir_graph)
       /\ \E m \in NodeSet(sir_graph) \ {debt_items[k].id} :
            HasEdge(sir_graph, debt_items[k].id, m) /\ HasEdge(sir_graph, m, debt_items[k].id)
       /\ sir[k].sir_components.outDependencies = 1
       /\ sir[k].sir_components.inDependencies = 1

\* C18: the stored sir_score is w_sev * severity + w_out * outgoing
\* - w_in * incoming + w_chain * chain_length_factor over the stored
\* components, with the weights passed to SirCalculator, or 0.4, 0.3, 0.1,
\* 0.4 when none are passed.
C18_WeightedSum ==
  pc = "scored" =>
    /\ weights = IF weights_arg = <<>>
                 THEN [severity |-> 4, outgoing |-> 3, incoming |-> 1, chain_length |-> 4]
                 ELSE weights_arg[1]
    /\ \A k \in 1..Len(debt_items) :
         LET c == sir[k].sir_components
             f == c.chainLengthFactor
         IN sir[k].sir_score.num * 10 * f.den
              = sir[k].sir_score.den
                  * ((weights.severity * c.severity + weights.outgoing * c.outDependencies
                        - weights.incoming * c.inDependencies) * f.den
                     + weights.chain_length * f.num)

\* weights were passed in, and an instance with ancestors and a chain was
\* scored
C18_Witness ==
  /\ pc = "scored"
  /\ weights_arg # <<>>
  /\ \E k \in 1..Len(debt_items) :
       /\ sir[k].sir_components.inDependencies > 0
       /\ sir[k].sir_components.chainLengthFactor.num > 0

\* no relationship has the instance as an end
Untouched(id) ==
  \A r \in 1..Len(relationships) :
    relationships[r].source_id # id /\ relationships[r].target_id # id

\* C19: an instance that no edge touches is scored all the same: its
\* severity is computed, outgoing_influence, incoming_dependency and
\* chain_length_factor are 0, and sir_score is w_sev * severity.
C19_UntouchedInstance ==
  pc = "scored" =>
    \A k \in 1..Len(debt_items) :
      Untouched(debt_items[k].id) =>
        LET c == sir[k].sir_components
        IN /\ c.severity >= 1
           /\ c.outDependencies = 0
           /\ c.inDependencies = 0
           /\ c.chainLengthFactor.num = 0
           /\ sir[k].sir_score.num * 10 = sir[k].sir_score.den * weights.severity * c.severity

\* an instance outside a graph that has edges was scored
C19_Witness ==
  /\ pc = "scored"
  /\ sir_graph # DiGraph
  /\ \E k \in 1..Len(debt_items) :
       /\ Untouched(debt_items[k].id)
       /\ debt_items[k].id \notin NodeSet(sir_graph)
       /\ sir[k].sir_score.num > 0

\* C20: every score gets exactly one bucket: the top one from 0.7 up, the
\* middle one from 0.4 up to but not including 0.7, the bottom one below 0.4.
C20_Tiering ==
  pc = "returned" =>
    /\ result \in {"Top-5", "Mid-5", "Bottom-5"}
    /\ result = "Top-5" <=> args >= 7000
    /\ result = "Mid-5" <=> (args >= 4000 /\ args < 7000)
    /\ result = "Bottom-5" <=> args < 4000

\* the score 0.7 itself was put in the top bucket
C20_Witness ==
  /\ pc = "returned"
  /\ args = 7000
  /\ result = "Top-5"

\* what calculate_chain_metrics returns when every metric is 0
ZeroMetrics ==
  [average_chain_length |-> Zero, maximum_chain_length |-> 0,
   participation_rate |-> Zero, cross_module_chains |-> Zero]

\* C22 as stated: with no instances, or with no relationships, find_chains
\* returns zero chains, calculate_chain_metrics returns 0 for the average
\* length, the maximum length, the participation rate and the cross-module
\* rate, and calculate_sir_scores can run and scores every instance.
C22_DegenerateAllZero ==
  (debt_items = <<>> \/ relationships = <<>>)
    => /\ pc \in {"chained", "measured", "scored"} => chains = <<>>
       /\ pc \in {"measured", "scored"} => chain_metrics = ZeroMetrics
       /\ pc = "measured" => ENABLED CalculateSirScores
       /\ pc = "scored" => Len(sir) = Len(debt_items)

\* C22, amended: with no relationships, whatever the instances, find_chains
\* returns zero chains, every metric is 0, and calculate_sir_scores, given
\* the empty graph of these relationships, can run and writes on every
\* instance a score with 0 outgoing, 0 incoming and a chain length factor of
\* 0.  With no instances but a relationship list: when every relationship is
\* a self-loop, find_chains returns zero chains and every metric is 0; when
\* some relationship joins two different ids, find_chains returns at least
\* one chain, the average and the maximum length are at least 2 and the
\* participation rate and the cross-module rate are 0; calculate_sir_scores
\* can run in both cases.
C22_NoRelationshipsAllZero ==
  /\ relationships = <<>>
       => /\ pc \in {"chained", "measured", "scored"} => chains = <<>>
          /\ pc \in {"measured", "scored"} => chain_metrics = ZeroMetrics
          /\ pc = "measured" => ENABLED CalculateSirScores
          /\ pc = "scored" =>
               /\ Len(sir) = Len(debt_items)
               /\ \A k \in 1..Len(sir) :
                    /\ sir[k] # Unscored
                    /\ sir[k].sir_components.outDependencies = 0
                    /\ sir[k].sir_components.inDependencies = 0
                    /\ sir[k].sir_components.chainLengthFactor = Zero
  /\ (debt_items = <<>> /\ relationships # <<>>)
       => /\ pc = "measured" => ENABLED CalculateSirScores
          /\ pc = "scored" => sir = <<>>
          /\ IF \A n \in 1..Len(relationships) :
                  relationships[n].source_id = relationships[n].target_id
             THEN /\ pc \in {"chained", "measured", "scored"} => chains = <<>>
                  /\ pc \in {"measured", "scored"} => chain_metrics = ZeroMetrics
             ELSE /\ pc \in {"chained", "measured", "scored"} => chains # <<>>
                  /\ pc \in {"measured", "scored"} =>
                       /\ chain_metrics.average_chain_length.num
                            >= 2 * chain_metrics.average_chain_length.den
                       /\ chain_metrics.maximum_chain_length >= 2
                       /\ chain_metrics.participation_rate.num = 0
                       /\ chain_metrics.cross_module_chains.num = 0

\* two instances and no relationship between them, scored
C22_Witness ==
  /\ pc = "scored"
  /\ relationships = <<>>
  /\ Len(debt_items) = 2
  /\ Len(graph) = 2
  /\ chains = <<>>

\* C23: on every directed graph over the instances, cycles and self-loops
\* included, the path enumeration of find_chains ends, no path under
\* construction ever holds a node twice or more nodes than the graph has, and
\* the paths returned are those find_chains uses.
C23_CycleSafe ==
  /\ [](pc = "search" =>
          \A i \in 1..Len(result) :
            /\ NoRepeat(result[i].path)
            /\ Len(result[i].path) <= Len(args.graph))
  /\ [](pc = "returned" =>
          result = all_simple_paths(args.graph, args.source, args.target, cutoff))
  /\ <>(pc = "returned")

\* the search has returned on the complete graph of three nodes, self-loops
\* included: the direct path and the path through the third node
C23_Witness ==
  /\ pc = "returned"
  /\ Len(args.graph) = 3
  /\ \A u \in NodeSet(args.graph), v \in NodeSet(args.graph) : HasEdge(args.graph, u, v)
  /\ Len(result) = 2

\* a step of find_chains, calculate_chain_metrics or calculate_sir_scores
EngineStep == pc \in {"related", "chained", "measured"} /\ pc' # pc

InstancesUnchangedStep ==
  EngineStep => (debt_items' = debt_items /\ sir' = sir)

\* C25 as stated: find_chains, calculate_chain_metrics and
\* calculate_sir_scores leave the list of instances and every field of every
\* instance, sir_score and sir_components included, as they were.
C25_InstancesUnchanged == [][InstancesUnchangedStep]_vars

OnlyScoresWrittenStep ==
  EngineStep =>
    /\ debt_items' = debt_items
    /\ pc \in {"related", "chained"} => sir' = sir
    /\ pc = "measured" =>
         \A k \in 1..Len(debt_items) : sir'[k] # Unscored /\ sir[k] = Unscored

\* C25, amended: the three calls leave the list of instances, its order and
\* the id and file of every instance as they were; find_chains and
\* calculate_chain_metrics write no field of an instance, and
\* calculate_sir_scores writes sir_score and sir_components on each.
C25_OnlyScoresWritten == [][OnlyScoresWrittenStep]_vars

\* two instances have been scored
C25_Witness ==
  /\ pc = "scored"
  /\ Len(debt_items) = 2
  /\ \A k \in 1..Len(debt_items) : sir[k] # Unscored

\* the orders a list can be given in
Orderings(s) ==
  {[i \in 1..Len(s) |-> s[p[i]]] :
     p \in {q \in [1..Len(s) -> 1..Len(s)] : \A i, j \in 1..Len(s) : i # j => q[i] # q[j]}}

NodeSequences(cs) == {cs[k].nodes : k \in 1..Len(cs)}

\* the node sequences of the chains find_chains returns
ReturnedSequences(rels, items) ==
  NodeSequences(SortByLength(UniqueChains(CandidateChains(BuildGraph(rels, items)))))

\* C26: the set of node sequences of the chains returned by find_chains is
\* the same for every order of the instances and every order of the
\* relationships, that is for every order in which the (source, target)
\* pairs are enumerated.
C26_OrderIndependent ==
  pc = "chained" =>
    \A items \in Orderings(debt_items), rels \in Orderings(relationships) :
      ReturnedSequences(rels, items) = NodeSequences(chains)

\* the (source_id, target_id) pairs of the relationships between two
\* different ids
ProperPairs(rels) == {pair \in RelPairs(rels) : pair[1] # pair[2]}

\* C27: every input relationship whose source_id differs from its target_id
\* is a two-node chain of the output, is returned with in_chain true and a
\* non-empty chain_ids, and there are at least as many chains as distinct
\* ordered pairs among these relationships.
C27_RelationshipsAreChains ==
  pc = "chained" =>
    /\ \A k \in 1..Len(relationships) :
         relationships[k].source_id # relationships[k].target_id
           => /\ <<relationships[k].source_id, relationships[k].target_id>>
                   \in NodeSequences(chains)
              /\ enhanced[k].in_chain
              /\ enhanced[k].chain_ids # <<>>
    /\ Len(chains) >= Cardinality(ProperPairs(relationships))

\* C28: for every chain find_chains returns and every contiguous part of it
\* of at least 2 nodes, a chain with exactly the nodes of that part is
\* returned too.
C28_ClosedUnderSubpaths ==
  pc = "chained" =>
    \A k \in 1..Len(chains) :
      \A i \in 1..chains[k].length, j \in 1..chains[k].length :
        i < j => SubSeq(chains[k].nodes, i, j) \in NodeSequences(chains)

\* the end nodes of the chains that start at id, the start nodes of the
\* chains that end at id
ChainEndsFrom(id) ==
  {chains[k].nodes[chains[k].length] : k \in {k \in 1..Len(chains) : chains[k].nodes[1] = id}}

ChainStartsTo(id) ==
  {chains[k].nodes[1] : k \in {k \in 1..Len(chains) : chains[k].nodes[chains[k].length] = id}}

\* C29: when the graph given to calculate_sir_scores holds exactly the
\* relationships the chains were built from, each between two different
\* instances of the list, and the cutoff is at least the
\* number of nodes minus 1, the outgoing influence of every instance is the
\* number of distinct end nodes of the chains that start at it, and its
\* incoming dependency the number of distinct start nodes of the chains that
\* end at it.
C29_ChainsAgreeWithReachability ==
  (pc = "scored" /\ sir_graph = add_edges(DiGraph, relationships)
     /\ (\A n \in 1..Len(relationships) : ~Malformed(relationships[n]))
     /\ cutoff >= Len(graph) - 1)
    => \A k \in 1..Len(debt_items) :
         /\ sir[k].sir_components.outDependencies
              = Cardinality(ChainEndsFrom(debt_items[k].id))
         /\ sir[k].sir_components.inDependencies
              = Cardinality(ChainStartsTo(debt_items[k].id))

\* C30: no two chains returned by find_chains have the same id, and every id
\* in the chain_ids of a returned relationship is the id of exactly one
\* returned chain, never of a chain the deduplication removed.
C30_ChainIdsUniqueAndResolved ==
  pc = "chained" =>
    /\ \A i, j \in 1..Len(chains) : i # j => chains[i].id # chains[j].id
    /\ \A k \in 1..Len(enhanced) :
         \A n \in 1..Len(enhanced[k].chain_ids) :
           Cardinality({i \in 1..Len(chains) : chains[i].id = enhanced[k].chain_ids[n]}) = 1

\* the deduplication removed a candidate, and a relationship lies on two of
\* the chains that are left
C30_Witness ==
  /\ pc = "chained"
  /\ Len(chains) >= 2
  /\ Len(chains) < Len(candidates)
  /\ \E k \in 1..Len(enhanced) : Len(enhanced[k].chain_ids) = 2

====
